---------------------------- MODULE Spec2Model ----------------------------
(***************************************************************************)
(* Client-side session management of the portfolio front end.              *)
(*                                                                         *)
(* Two implementations of the zustand auth store are modelled, selected by *)
(* the variable `variant`:                                                 *)
(*   "useAuthStore"  src/src/store/useAuthStore.ts  (raw axios, key        *)
(*                   'jwtToken', onRehydrateStorage expiry check, setters) *)
(*   "authStore"     src/src/store/auth-store.ts, first store of the file  *)
(*                   (shared api client of src/src/lib/api.ts, key 'token',*)
(*                   no rehydration hook; src/src/lib/auth.ts is its       *)
(*                   checkAuthOnLoad)                                      *)
(*                                                                         *)
(* Library behaviour assumed (zustand persist over localStorage, which is  *)
(* synchronous): every set()/setState() of the store is followed by a write*)
(* of {state: partialize(state), version: 0} under the key 'auth-store';   *)
(* creating the store reads that key, merges its state over the initial    *)
(* state and then runs the onRehydrateStorage callback, whose effects on   *)
(* the store are kept.  jwtDecode throws on a string that is not a JWT.    *)
(***************************************************************************)
EXTENDS Integers, FiniteSets, Sequences, TLC

VARIABLES variant, nowMs, mem, localStorage, calls, solo, hung, last,
          location, listeners, components, timers

\* the state of the subscribable store of src/unnamed/part_012
subVars == <<listeners, components, timers>>

vars ==
  <<variant, nowMs, mem, localStorage, calls, solo, hung, last, location,
    subVars>>

(* ------------------------------ bounds -------------------------------- *)
MaxCalls == 2
MaxTicks == 2

(* ----------------------------- constants ------------------------------ *)
TickMs == 1000
Variants == {"useAuthStore", "authStore"}
\* the instances of components that use the hook of part_012
Components == {"c1", "c2"}
Null == "<null>"
AUTH_TOKEN_KEY == "jwtToken"
Keys == {"jwtToken", "user", "token", "auth-store", "authToken"}

\* tokens the identity backend issues, with the exp claim (epoch seconds)
JwtExp == [jwtA |-> 1, jwtB |-> 2]
BackendTokens == DOMAIN JwtExp
BackendUsers == {"user-1", "user-2"}
\* what POST /login, /register and /google-login answer on success
LoginResponses ==
  { [token |-> "jwtA", user |-> "user-1"], [token |-> "jwtB", user |-> "user-2"] }
\* what PUT /profile answers on success: the user with the patch applied, or
\* the user as the backend kept it
ProfileResponses == {"user-1-phone", "user-1"}

Credentials ==
  { [email |-> "mock@example.com", password |-> "mockpassword"],
    [email |-> "test@example.com", password |-> "123456"],
    [email |-> "user@example.com", password |-> "secret"] }
GoogleCredentials == {"mock-google-credential", "google-id-token"}
Patches == {"phone"}

\* errors of the HTTP client: status 0 is a request that got no response
Errors ==
  { [status |-> 401, dataMessage |-> "Invalid email or password",
     message |-> "Request failed with status code 401"],
    [status |-> 0, dataMessage |-> "", message |-> "Network Error"] }

AuthOps == {"login", "register", "loginWithGoogle"}
Ops == AuthOps \cup {"updateProfile"}

(* --------------------------- pure helpers ------------------------------ *)
Absent == [absent |-> TRUE]
Str(s) == [str |-> s]
JSONstringify(v) == [json |-> v]
JSONparse(item) == item.json

\* jwtDecode: the decoded claims, or a throw for a string that is no JWT
jwtDecode(t) ==
  IF t \in DOMAIN JwtExp THEN [ok |-> TRUE, exp |-> JwtExp[t]]
                         ELSE [ok |-> FALSE, exp |-> 0]

Fresh(t) == jwtDecode(t).ok /\ jwtDecode(t).exp * 1000 > nowMs

initialState ==
  [user |-> Null, token |-> Null, isAuthenticated |-> FALSE, isLoading |-> FALSE]

\* the session triple, as the properties below compare it
Triple(state) ==
  [user |-> state.user, token |-> state.token,
   isAuthenticated |-> state.isAuthenticated]

\* a partialize that leaves the token out of the snapshot
partializeNoToken(state) ==
  [user |-> state.user, token |-> Null,
   isAuthenticated |-> state.isAuthenticated]

\* a partialize that lets isLoading into the snapshot
partializeWithLoading(state) ==
  [user |-> state.user, token |-> state.token,
   isAuthenticated |-> state.isAuthenticated, isLoading |-> state.isLoading]

partialize(state) ==
  [user |-> state.user, token |-> state.token,
   isAuthenticated |-> state.isAuthenticated]

Merge(state, partial) ==
  [f \in DOMAIN state |-> IF f \in DOMAIN partial THEN partial[f] ELSE state[f]]

\* a world is the store's memory together with localStorage
setItem(w, k, v) == [w EXCEPT !.ls[k] = v]
removeItem(w, k) == [w EXCEPT !.ls[k] = Absent]
getItem(w, k) == w.ls[k]

\* set() of the persisted store: merge, then write the snapshot
set(w, partial) ==
  LET m2 == Merge(w.mem, partial)
  IN  [mem |-> m2,
       ls  |-> [w.ls EXCEPT !["auth-store"] =
                  JSONstringify([state |-> partialize(m2), version |-> 0])]]

World == [mem |-> mem, ls |-> localStorage]


(* ------------------- src/src/store/useAuthStore.ts -------------------- *)
\* a logout that forgets the cached 'user' item
logoutKeepsUserItem(w) ==
  removeItem(removeItem(
      set(w, [user |-> Null, token |-> Null,
              isAuthenticated |-> FALSE, isLoading |-> FALSE]),
      AUTH_TOKEN_KEY), "auth-store")

\* logout (useAuthStore.ts)
logout(w) ==
  removeItem(removeItem(removeItem(
      set(w, [user |-> Null, token |-> Null,
              isAuthenticated |-> FALSE, isLoading |-> FALSE]),
      AUTH_TOKEN_KEY), "user"), "auth-store")

setAuthenticated(w, status) == set(w, [isAuthenticated |-> status])

setToken(w, newToken) ==
  LET w1 == set(w, [token |-> newToken])
  IN  IF newToken # Null THEN setItem(w1, AUTH_TOKEN_KEY, Str(newToken))
                         ELSE removeItem(w1, AUTH_TOKEN_KEY)

setUser(w, newUser) ==
  LET w1 == set(w, [user |-> newUser])
  IN  IF newUser # Null THEN setItem(w1, "user", JSONstringify(newUser))
                        ELSE removeItem(w1, "user")

\* the hard-coded mock branches of login and loginWithGoogle
IsMockLogin(cred) ==
  cred.email = "mock@example.com" /\ cred.password = "mockpassword"
mockLoginToken == "mock-jwt-token-for-test-user-123"
mockLoginUser == "mock-user-1"
mockGoogleToken == "mock-google-jwt-token-456"
mockGoogleUser == "mock-user-2"

\* a success continuation that keeps the token of the previous session
loginSuccessStaleToken(w, token, user) ==
  set(setItem(setItem(w, AUTH_TOKEN_KEY, Str(token)),
              "user", JSONstringify(user)),
      [isAuthenticated |-> TRUE, user |-> user, isLoading |-> FALSE])

\* success continuation of login / register / loginWithGoogle
loginSuccess(w, token, user) ==
  set(setItem(setItem(w, AUTH_TOKEN_KEY, Str(token)),
              "user", JSONstringify(user)),
      [isAuthenticated |-> TRUE, token |-> token, user |-> user,
       isLoading |-> FALSE])

\* catch block of login / register / loginWithGoogle
loginCatch(w) == logout(w)

\* a success continuation that keeps the user the store already had
updateProfileSuccessKeepsUser(w, data) ==
  set(setItem(w, "user", JSONstringify(data)), [isLoading |-> FALSE])

updateProfileSuccess(w, data) ==
  set(setItem(w, "user", JSONstringify(data)),
      [user |-> data, isLoading |-> FALSE])

\* a catch block that does not clear isLoading
updateProfileCatchKeepsLoading(w) == w

updateProfileCatch(w) == set(w, [isLoading |-> FALSE])

\* a rehydration callback whose expiry comparison is inverted
onRehydrateStorageInverted(w) ==
  IF w.mem.token # Null
  THEN LET decoded == jwtDecode(w.mem.token)
       IN  IF ~decoded.ok THEN logout(w)
           ELSE IF decoded.exp * 1000 > nowMs THEN logout(w)
           ELSE setAuthenticated(w, TRUE)
  ELSE w

\* the callback the persist middleware runs after reading the snapshot
onRehydrateStorage(w) ==
  IF w.mem.token # Null
  THEN LET decoded == jwtDecode(w.mem.token)
       IN  IF ~decoded.ok THEN logout(w)
           ELSE IF decoded.exp * 1000 < nowMs THEN logout(w)
           ELSE setAuthenticated(w, TRUE)
  ELSE w

(* --------------------- src/src/store/auth-store.ts --------------------- *)
authStoreLogout(w) ==
  removeItem(removeItem(
      set(w, [user |-> Null, token |-> Null, isAuthenticated |-> FALSE]),
      "token"), "auth-store")

AuthStoreIsMockLogin(cred) ==
  cred.email = "test@example.com" /\ cred.password = "123456"
authStoreMockToken == "mock-token"
authStoreMockUser == "Demo User"
authStoreMockGoogleToken == "mock-google-token"
authStoreMockGoogleUser == "Google User"

\* a success continuation that yields to a session already established
authStoreLoginSuccessFirstWins(w, token, user) ==
  IF w.mem.isAuthenticated THEN set(w, [isLoading |-> FALSE])
  ELSE set(setItem(w, "token", Str(token)),
           [user |-> user, token |-> token, isAuthenticated |-> TRUE,
            isLoading |-> FALSE])

authStoreLoginSuccess(w, token, user) ==
  set(setItem(w, "token", Str(token)),
      [user |-> user, token |-> token, isAuthenticated |-> TRUE,
       isLoading |-> FALSE])

authStoreLoginCatch(w) == set(w, [isLoading |-> FALSE])

authStoreUpdateProfileSuccess(w, data) ==
  set(w, [user |-> data, isLoading |-> FALSE])

(* ------------------------- message extraction -------------------------- *)
DefaultMessage(op) ==
  CASE op = "login" -> "Login failed"
    [] op = "register" -> "Registration failed"
    [] op = "loginWithGoogle" -> "Google login failed"
    [] OTHER -> "Failed to update profile"

\* error.response?.data?.message || error.message || default
ErrorMessage(err, op) ==
  IF err.status # 0 /\ err.dataMessage # "" THEN err.dataMessage
  ELSE IF err.message # "" THEN err.message
  ELSE DefaultMessage(op)

(* ----------------------- persist middleware ---------------------------- *)
\* creation of the store: initial state with the persisted state merged in
hydrate(ls) ==
  LET item == ls["auth-store"]
  IN  IF item = Absent THEN [mem |-> initialState, ls |-> ls]
      ELSE [mem |-> Merge(initialState, JSONparse(item).state), ls |-> ls]

PersistedState(ls) ==
  IF ls["auth-store"] = Absent THEN Triple(initialState)
  ELSE JSONparse(ls["auth-store"]).state


(* ------------------------ src/src/lib/api.ts --------------------------- *)
\* the Authorization header `Bearer ${token}`
Bearer(token) == [bearer |-> token]

\* request interceptor: the Authorization header put on the request, if any
requestInterceptor(w) ==
  LET token == getItem(w, "token")
  IN  IF token # Absent THEN Bearer(token.str) ELSE Absent

\* response interceptor, status 401: the standalone token key is removed,
\* the browser is sent to /login and the caller gets a promise that never
\* settles
responseInterceptor401(w) == removeItem(w, "token")

Intercepted(err) == variant = "authStore" /\ err.status = 401

(* ------------------------ src/src/router.tsx --------------------------- *)
PublicRoutes == {"/", "/login", "/register"}
\* the children of the route whose loader is authLoader
ProtectedRoutes ==
  {"/dashboard", "/positions", "/trades", "/analytics", "/charts",
   "/profile", "/settings"}
\* the paths navigations are tried to
NavTargets == {"/login", "/dashboard", "/settings"}
\* what the OAuth redirect can carry in ?error=
OAuthErrors == {"access_denied"}

\* a loader that lets every navigation proceed
authLoaderOpen(w) == FALSE

\* authLoader: TRUE when it throws redirect("/login")
authLoader(w) == getItem(w, "authToken") = Absent

(* ------------- src/src/components/layout/DashboardLayout.tsx ----------- *)
bypassAuth == TRUE

\* isAuthenticated of the layout's own useAuthStore hook once loadingAuth is
\* false
layoutIsAuthenticated(w) == bypassAuth \/ getItem(w, "authToken") # Absent

(* --------------------- src/src/pages/ProfilePage.tsx ------------------- *)
\* the routes that render ProfilePage (SettingsPage is ProfilePage)
ProfileRoutes == {"/profile", "/settings"}

\* the effect that loads the user: TRUE when it navigates to /login
profilePageRedirects(w) == getItem(w, "user") = Absent

\* where a navigation to `path` ends: the loader of a protected route may
\* redirect, and so may the effects of the layout and of the page it renders
navigate(w, path) ==
  IF path \in ProtectedRoutes
  THEN IF authLoader(w) THEN "/login"
       ELSE IF ~layoutIsAuthenticated(w) THEN "/login"
       ELSE IF path \in ProfileRoutes /\ profilePageRedirects(w) THEN "/login"
       ELSE path
  ELSE path

(* ------------------------ src/src/lib/auth.ts -------------------------- *)
\* outcome of checkAuthOnLoad: the world it leaves and whether it threw
checkAuthOnLoad(w) ==
  LET authData == getItem(w, "auth-store")
  IN  IF authData = Absent THEN [w |-> w, threw |-> FALSE]
      ELSE LET state == JSONparse(authData).state
           IN  IF state.token = Null THEN [w |-> w, threw |-> FALSE]
               ELSE LET decoded == jwtDecode(state.token)
                    IN  IF ~decoded.ok THEN [w |-> w, threw |-> TRUE]
                        ELSE IF decoded.exp * 1000 < nowMs
                        THEN [w |-> authStoreLogout(w), threw |-> FALSE]
                        ELSE [w |-> set(w, [isAuthenticated |-> TRUE,
                                            token |-> state.token,
                                            user |-> state.user]),
                              threw |-> FALSE]

(* ----------------- src/unnamed/part_012 (subscribable store) ----------- *)
MOCK_USER == "Mock User"
MOCK_GOOGLE_USER == "Google User"
\* the users after ProfilePage saved its form over them
EditedUser ==
  [u \in {"Mock User", "Google User", "Mock User (edited)",
          "Google User (edited)"} |->
     IF u \in {"Mock User", "Mock User (edited)"} THEN "Mock User (edited)"
     ELSE "Google User (edited)"]
\* user.token
UserToken(user) ==
  IF user \in {"Mock User", "Mock User (edited)"}
  THEN "mock-jwt-token-for-test-user"
  ELSE "mock-google-jwt-token"

SubCredentials ==
  { [email |-> "test@example.com", password |-> "password123"],
    [email |-> "user@example.com", password |-> "secret"] }
SubGoogleCredentials == {"google-id-token", ""}

Unmounted ==
  [stage |-> "unmounted",
   state |-> [user |-> Null, isAuthenticated |-> FALSE]]

getSnapshot(m) == [user |-> m.user, isAuthenticated |-> m.isAuthenticated]

\* a disposer that leaves the listener in the set
unsubscribeLeaks(ls, c) == ls

subscribe(ls, c) == [ls EXCEPT ![c] = @ + 1]
unsubscribe(ls, c) == [ls EXCEPT ![c] = IF @ > 0 THEN @ - 1 ELSE 0]

\* publish: every listener runs setState(getSnapshot())
publish(comps, ls, snapshot) ==
  [c \in Components |->
     IF ls[c] > 0 /\ comps[c].stage # "unmounted"
     THEN [comps[c] EXCEPT !.state = snapshot]
     ELSE comps[c]]

\* setUserState without the publish, which the actions below add
setUserState(w, user) ==
  LET m2 == [w.mem EXCEPT !.user = user,
                          !.token = IF user = Null THEN Null
                                    ELSE UserToken(user),
                          !.isAuthenticated = (user # Null)]
  IN  IF user # Null
      THEN [mem |-> m2,
            ls |-> [w.ls EXCEPT !["authToken"] = Str(UserToken(user)),
                                !["user"] = JSONstringify(user)]]
      ELSE [mem |-> m2,
            ls |-> [w.ls EXCEPT !["authToken"] = Absent, !["user"] = Absent]]

\* init: the state of the store when the module is loaded
init(ls) ==
  IF ls["authToken"] # Absent /\ ls["user"] # Absent
  THEN [initialState EXCEPT !.user = JSONparse(ls["user"]),
                            !.token = UserToken(JSONparse(ls["user"])),
                            !.isAuthenticated = TRUE]
  ELSE initialState

(* ------------------------------ state ---------------------------------- *)
\* variant      which store implementation runs
\* nowMs        Date.now()
\* mem          the store's state { user, token, isAuthenticated, isLoading }
\* localStorage the browser's storage, key -> item
\* calls        how many calls of each action await their backend response
\* solo         on: exactly one call is in flight, it was invoked when none
\*              was, and no store operation ran since; pre, ls: the session
\*              triple and the storage when it was invoked
\* hung         the action, or the page's request, whose promise the 401
\*              interceptor replaced by one that never settles (the page is
\*              about to be redirected)
\* location     the path of the route the router renders
\* listeners    part_012: how many listeners of each component instance the
\*              store's listener set holds
\* components   part_012: each component instance's stage (unmounted,
\*              rendered, subscribed) and the snapshot its useState holds
\* timers       part_012: the pending setTimeout callbacks of login and
\*              loginWithGoogle with the arguments they captured
\* last         the last store event and what it produced; a settlement
\*              also records the storage at invocation (prels), the kind of
\*              the event before it (after) and that event's token (over);
\*              a reload records status 401 when the interceptor's redirect
\*              caused it, and the isLoading it found (wasLoading)
IsU == variant = "useAuthStore"

InFlight ==
  calls["login"] + calls["register"] + calls["loginWithGoogle"]
    + calls["updateProfile"]

NoneUnsettled == InFlight = 0 /\ hung = "none"

\* the page is not being torn down by the interceptor's redirect
PageAlive == hung = "none"

NoStorage == [k \in Keys |-> Absent]

NoSolo == [on |-> FALSE, pre |-> Triple(initialState), ls |-> NoStorage]

Ev(ev, op, pre, wasSolo, status, message, token, user) ==
  [ev |-> ev, op |-> op, pre |-> pre, solo |-> wasSolo, status |-> status,
   message |-> message, token |-> token, user |-> user,
   prels |-> NoStorage, after |-> "none", over |-> Null,
   authorization |-> Absent, wasLoading |-> FALSE]

Quiet(ev, op) ==
  Ev(ev, op, Triple(initialState), FALSE, -1, "", Null, Null)

Commit(w) == mem' = w.mem /\ localStorage' = w.ls

Init ==
  /\ variant \in Variants
  /\ nowMs = 0
  /\ mem = initialState
  /\ localStorage = NoStorage
  /\ calls = [op \in Ops |-> 0]
  /\ solo = NoSolo
  /\ hung = "none"
  /\ last = Quiet("init", "none")
  /\ location = "/"
  /\ listeners = [c \in Components |-> 0]
  /\ components = [c \in Components |-> Unmounted]
  /\ timers = <<>>

(* ------------------------------ actions -------------------------------- *)
\* set({ isLoading: true }) and suspension at the awaited backend call
Suspend(op) ==
  /\ PageAlive
  /\ InFlight < MaxCalls
  /\ Commit(set(World, [isLoading |-> TRUE]))
  /\ calls' = [calls EXCEPT ![op] = @ + 1]
  /\ solo' = IF NoneUnsettled
             THEN [on |-> TRUE, pre |-> Triple(mem), ls |-> localStorage]
             ELSE NoSolo
  /\ last' = Quiet("invoked", op)
  /\ UNCHANGED <<variant, subVars, location, nowMs, hung>>

\* a mock branch: the whole call runs without suspension
MockBranch(op, token, user) ==
  /\ PageAlive
  /\ Commit(IF IsU
            THEN loginSuccess(set(World, [isLoading |-> TRUE]), token, user)
            ELSE authStoreLoginSuccess(set(World, [isLoading |-> TRUE]),
                                       token, user))
  /\ solo' = NoSolo
  /\ last' = Ev("resolved", op, Triple(mem), NoneUnsettled, -1, "", token,
                user)
  /\ UNCHANGED <<variant, subVars, location, nowMs, calls, hung>>

Login(cred) ==
  IF IsU /\ IsMockLogin(cred)
  THEN MockBranch("login", mockLoginToken, mockLoginUser)
  ELSE IF ~IsU /\ AuthStoreIsMockLogin(cred)
  THEN MockBranch("login", authStoreMockToken, authStoreMockUser)
  ELSE Suspend("login")

Register(cred) == Suspend("register")

LoginWithGoogle(credential) ==
  IF credential = "mock-google-credential"
  THEN IF IsU
       THEN MockBranch("loginWithGoogle", mockGoogleToken, mockGoogleUser)
       ELSE MockBranch("loginWithGoogle", authStoreMockGoogleToken,
                       authStoreMockGoogleUser)
  ELSE Suspend("loginWithGoogle")

UpdateProfile(patch) == Suspend("updateProfile")

\* a call leaves the set of calls in flight
Settle(op, ev, status, message, token, user) ==
  /\ PageAlive
  /\ calls' = [calls EXCEPT ![op] = @ - 1]
  /\ solo' = NoSolo
  /\ last' = [Ev(ev, op, solo.pre, solo.on, status, message, token, user)
                EXCEPT !.prels = solo.ls, !.after = last.ev,
                       !.over = last.token]

\* the backend answers { token, user }
Resolve(op, data) ==
  /\ op \in AuthOps /\ calls[op] > 0
  /\ Fresh(data.token)
  /\ Commit(IF IsU THEN loginSuccess(World, data.token, data.user)
                   ELSE authStoreLoginSuccess(World, data.token, data.user))
  /\ Settle(op, "resolved", 200, "", data.token, data.user)
  /\ UNCHANGED <<variant, subVars, location, nowMs, hung>>

\* the request fails; in auth-store.ts a 401 is taken by the interceptor,
\* otherwise the catch block runs and leaves the world `caught`
Fail(op, err, caught) ==
  IF Intercepted(err)
  THEN /\ Commit(responseInterceptor401(World))
       /\ hung' = op
       /\ Settle(op, "hung", err.status, "", Null, Null)
       /\ UNCHANGED <<variant, subVars, location, nowMs>>
  ELSE /\ Commit(caught)
       /\ Settle(op, "rejected", err.status, ErrorMessage(err, op), Null, Null)
       /\ UNCHANGED <<variant, subVars, location, nowMs, hung>>

Reject(op, err) ==
  /\ op \in AuthOps /\ calls[op] > 0
  /\ Fail(op, err, IF IsU THEN loginCatch(World)
                           ELSE authStoreLoginCatch(World))

UpdateProfileResolve(data) ==
  /\ calls["updateProfile"] > 0
  /\ Commit(IF IsU THEN updateProfileSuccess(World, data)
                   ELSE authStoreUpdateProfileSuccess(World, data))
  /\ Settle("updateProfile", "resolved", 200, "", Null, data)
  /\ UNCHANGED <<variant, subVars, location, nowMs, hung>>

UpdateProfileReject(err) ==
  /\ calls["updateProfile"] > 0
  /\ Fail("updateProfile", err, updateProfileCatch(World))

Logout ==
  /\ PageAlive
  /\ Commit(IF IsU THEN logout(World) ELSE authStoreLogout(World))
  /\ solo' = NoSolo
  /\ last' = Quiet("logout", "logout")
  /\ UNCHANGED <<variant, subVars, location, nowMs, calls, hung>>

Setter(name, w) ==
  /\ PageAlive
  /\ IsU
  /\ Commit(w)
  /\ solo' = NoSolo
  /\ last' = Quiet("set", name)
  /\ UNCHANGED <<variant, subVars, location, nowMs, calls, hung>>

SetAuthenticated(status) ==
  Setter("setAuthenticated", setAuthenticated(World, status))
SetToken(newToken) ==
  /\ newToken = Null \/ Fresh(newToken)
  /\ Setter("setToken", setToken(World, newToken))
SetUser(newUser) == Setter("setUser", setUser(World, newUser))

\* LoginPage effect when the browser arrives at /login?token=... (OAuth
\* redirect): setToken, setAuthenticated(true), navigate("/dashboard")
LoginPageOAuthCallback(tokenFromUrl) ==
  /\ PageAlive
  /\ IsU
  /\ Fresh(tokenFromUrl)
  /\ LET w == setAuthenticated(setToken(World, tokenFromUrl), TRUE)
     IN  Commit(w) /\ location' = navigate(w, "/dashboard")
  /\ solo' = NoSolo
  /\ last' = Ev("set", "oauthCallback", Triple(mem), FALSE, -1, "",
                tokenFromUrl, Null)
  /\ UNCHANGED <<variant, subVars, nowMs, calls, hung>>

\* LoginPage effect when the browser arrives at /login?error=...: toast,
\* navigate("/login")
LoginPageOAuthError(errorFromUrl) ==
  /\ PageAlive
  /\ IsU
  /\ location' = navigate(World, "/login")
  /\ last' = Ev("notified", "oauthError", Triple(mem), FALSE, -1,
                errorFromUrl, Null, Null)
  /\ UNCHANGED <<variant, subVars, nowMs, mem, localStorage, calls, solo, hung>>

\* LoginPage effect on isAuthenticated: navigate("/dashboard")
LoginPageRedirect ==
  /\ PageAlive
  /\ location = "/login"
  /\ mem.isAuthenticated
  /\ location' = navigate(World, "/dashboard")
  /\ last' = Ev("redirected", "/dashboard", Triple(mem), FALSE, -1, "", Null,
                Null)
  /\ UNCHANGED <<variant, subVars, nowMs, mem, localStorage, calls, solo, hung>>

\* a navigation of the router to a path
Navigate(path) ==
  /\ PageAlive
  /\ location' = navigate(World, path)
  /\ last' = Ev("navigated", path, Triple(mem), FALSE, -1, "", Null, Null)
  /\ UNCHANGED <<variant, subVars, nowMs, mem, localStorage, calls, solo, hung>>

\* a page sends a request through the api client of lib/api.ts and the
\* backend answers it; the request and its answer are one step
ApiRequest(status) ==
  /\ PageAlive
  /\ IF status = 401
     THEN Commit(responseInterceptor401(World)) /\ hung' = "request"
     ELSE UNCHANGED <<mem, localStorage, hung>>
  /\ last' = [Ev(IF status = 401 THEN "hung" ELSE "request", "request",
                 Triple(mem), InFlight = 0, status, "", Null, Null)
                EXCEPT !.authorization = requestInterceptor(World)]
  /\ UNCHANGED <<variant, subVars, location, nowMs, calls, solo>>

\* a (re)load of the page: the store is created anew and hydrated, and the
\* router resolves the URL, which the interceptor's redirect set to /login
Reload ==
  /\ Commit(IF IsU THEN onRehydrateStorage(hydrate(localStorage))
                   ELSE hydrate(localStorage))
  /\ calls' = [op \in Ops |-> 0]
  /\ solo' = NoSolo
  /\ hung' = "none"
  /\ last' = [Ev("rehydrated", "reload", PersistedState(localStorage), FALSE,
                 IF hung = "none" THEN -1 ELSE 401, "", Null, Null)
                EXCEPT !.wasLoading = mem.isLoading]
  /\ location' = IF hung = "none" THEN navigate(hydrate(localStorage), location)
                                  ELSE "/login"
  /\ UNCHANGED <<variant, subVars, nowMs>>

CheckAuthOnLoad ==
  /\ PageAlive
  /\ ~IsU
  /\ LET r == checkAuthOnLoad(World)
     IN  /\ Commit(r.w)
         /\ last' = Ev(IF r.threw THEN "threw" ELSE "rehydrated",
                       "checkAuthOnLoad", PersistedState(localStorage), FALSE,
                       -1, "", Null, Null)
  /\ solo' = NoSolo
  /\ UNCHANGED <<variant, subVars, location, nowMs, calls, hung>>

Tick ==
  /\ PageAlive
  /\ nowMs < MaxTicks * TickMs
  /\ nowMs' = nowMs + TickMs
  /\ last' = Quiet("tick", "none")
  /\ UNCHANGED <<variant, subVars, location, mem, localStorage, calls, solo, hung>>

(* --------------- actions of the subscribable store (part_012) ---------- *)
storeVars == <<variant, nowMs, calls, solo, hung>>

Timer(op, email, password, credential) ==
  [op |-> op, email |-> email, password |-> password,
   credential |-> credential]

\* some component that uses the hook is there to call the store
SomeMounted == \E c \in Components : components[c].stage # "unmounted"

\* the store changes through setUserState, which publishes
SubCommit(w) ==
  /\ Commit(w)
  /\ components' = publish(components, listeners, getSnapshot(w.mem))

SubLogin(cred) ==
  /\ SomeMounted
  /\ Len(timers) < MaxCalls
  /\ timers' = Append(timers, Timer("login", cred.email, cred.password, ""))
  /\ last' = Quiet("invoked", "login")
  /\ UNCHANGED <<storeVars, mem, localStorage, location, listeners,
                 components>>

SubLoginWithGoogle(credential) ==
  /\ SomeMounted
  /\ Len(timers) < MaxCalls
  /\ timers' = Append(timers, Timer("loginWithGoogle", "", "", credential))
  /\ last' = Quiet("invoked", "loginWithGoogle")
  /\ UNCHANGED <<storeVars, mem, localStorage, location, listeners,
                 components>>

\* the callback of a pending timer runs
SubTimer(i) ==
  /\ i \in 1..Len(timers)
  /\ LET t == timers[i]
         ok == IF t.op = "login"
               THEN t.email = "test@example.com" /\ t.password = "password123"
               ELSE t.credential # ""
         user == IF t.op = "login" THEN MOCK_USER ELSE MOCK_GOOGLE_USER
     IN  /\ IF ok THEN SubCommit(setUserState(World, user))
                  ELSE UNCHANGED <<mem, localStorage, components>>
         /\ last' = IF ok
                    THEN Ev("resolved", t.op, Triple(mem), FALSE, -1, "",
                            UserToken(user), user)
                    ELSE Ev("rejected", t.op, Triple(mem), FALSE,
                            IF t.op = "login" THEN 401 ELSE 0,
                            IF t.op = "login"
                            THEN "Invalid email or password provided."
                            ELSE "Google authentication failed.", Null, Null)
  /\ timers' = [j \in 1..(Len(timers) - 1) |->
                 IF j < i THEN timers[j] ELSE timers[j + 1]]
  /\ UNCHANGED <<storeVars, location, listeners>>

SubLogout ==
  /\ SomeMounted
  /\ SubCommit(setUserState(World, Null))
  /\ last' = Quiet("logout", "logout")
  /\ UNCHANGED <<storeVars, location, listeners, timers>>

\* the hook's first render: useState(getSnapshot())
Render(c) ==
  /\ components[c].stage = "unmounted"
  /\ components' = [components EXCEPT
                      ![c] = [stage |-> "rendered", state |-> getSnapshot(mem)]]
  /\ last' = Quiet("rendered", c)
  /\ UNCHANGED <<storeVars, mem, localStorage, location, listeners, timers>>

\* the hook's effect: subscribe
Effect(c) ==
  /\ components[c].stage = "rendered"
  /\ components' = [components EXCEPT ![c].stage = "subscribed"]
  /\ listeners' = subscribe(listeners, c)
  /\ last' = Quiet("subscribed", c)
  /\ UNCHANGED <<storeVars, mem, localStorage, location, timers>>

\* teardown: the effect's disposer runs if the effect did
Unmount(c) ==
  /\ components[c].stage # "unmounted"
  /\ listeners' = IF components[c].stage = "subscribed"
                  THEN unsubscribe(listeners, c) ELSE listeners
  /\ components' = [components EXCEPT ![c] = Unmounted]
  /\ last' = Quiet("unmounted", c)
  /\ UNCHANGED <<storeVars, mem, localStorage, location, timers>>

\* logout of the hook inside DashboardLayout, then the layout's effect
LayoutLogout ==
  /\ location \in ProtectedRoutes
  /\ localStorage' = [localStorage EXCEPT !["authToken"] = Absent,
                                          !["user"] = Absent]
  /\ location' = "/login"
  /\ last' = Ev("ui", "layoutLogout", Triple(mem), FALSE, -1, "", Null, Null)
  /\ UNCHANGED <<storeVars, mem, subVars>>

\* ProfilePage: the form is saved over the user read from storage
HandleProfileUpdate ==
  /\ location \in ProfileRoutes
  /\ localStorage["user"] # Absent
  /\ localStorage' =
       [localStorage EXCEPT
          !["user"] = JSONstringify(EditedUser[JSONparse(localStorage["user"])])]
  /\ last' = Ev("ui", "handleProfileUpdate", Triple(mem), FALSE, -1, "", Null,
                Null)
  /\ UNCHANGED <<storeVars, mem, location, subVars>>

\* a (re)load of the page: the module of the store is evaluated anew
SubReload ==
  /\ mem' = init(localStorage)
  /\ location' = navigate(World, location)
  /\ listeners' = [c \in Components |-> 0]
  /\ components' = [c \in Components |-> Unmounted]
  /\ timers' = <<>>
  /\ last' = Quiet("rehydrated", "reload")
  /\ UNCHANGED <<storeVars, localStorage>>

SubInit ==
  /\ variant = "part_012"
  /\ nowMs = 0
  /\ mem = initialState
  /\ localStorage = NoStorage
  /\ calls = [op \in Ops |-> 0]
  /\ solo = NoSolo
  /\ hung = "none"
  /\ last = Quiet("init", "none")
  /\ location = "/"
  /\ listeners = [c \in Components |-> 0]
  /\ components = [c \in Components |-> Unmounted]
  /\ timers = <<>>

SubNext ==
  \/ \E cred \in SubCredentials : SubLogin(cred)
  \/ \E credential \in SubGoogleCredentials : SubLoginWithGoogle(credential)
  \/ \E i \in 1..MaxCalls : SubTimer(i)
  \/ SubLogout
  \/ \E c \in Components : Render(c)
  \/ \E c \in Components : Effect(c)
  \/ \E c \in Components : Unmount(c)
  \/ LoginPageRedirect
  \/ \E path \in NavTargets : Navigate(path)
  \/ LayoutLogout
  \/ HandleProfileUpdate
  \/ SubReload

SubSpec == SubInit /\ [][SubNext]_vars

Next ==
  \/ \E cred \in Credentials : Login(cred)
  \/ \E cred \in Credentials : Register(cred)
  \/ \E credential \in GoogleCredentials : LoginWithGoogle(credential)
  \/ \E patch \in Patches : UpdateProfile(patch)
  \/ \E op \in AuthOps, data \in LoginResponses : Resolve(op, data)
  \/ \E op \in AuthOps, err \in Errors : Reject(op, err)
  \/ \E data \in ProfileResponses : UpdateProfileResolve(data)
  \/ \E err \in Errors : UpdateProfileReject(err)
  \/ Logout
  \/ \E status \in BOOLEAN : SetAuthenticated(status)
  \/ \E newToken \in BackendTokens \cup {Null} : SetToken(newToken)
  \/ \E newUser \in {"user-1", Null} : SetUser(newUser)
  \/ \E tokenFromUrl \in BackendTokens : LoginPageOAuthCallback(tokenFromUrl)
  \/ \E errorFromUrl \in OAuthErrors : LoginPageOAuthError(errorFromUrl)
  \/ LoginPageRedirect
  \/ \E path \in NavTargets : Navigate(path)
  \/ \E status \in {200, 401} : ApiRequest(status)
  \/ CheckAuthOnLoad
  \/ Tick
  \/ Reload

Spec == Init /\ [][Next]_vars

TypeOK ==
  /\ variant \in Variants
  /\ nowMs \in 0..(MaxTicks * TickMs)
  /\ mem.isAuthenticated \in BOOLEAN /\ mem.isLoading \in BOOLEAN
  /\ calls \in [Ops -> 0..MaxCalls] /\ InFlight <= MaxCalls
  /\ hung \in Ops \cup {"request", "none"}
  /\ solo.on \in BOOLEAN
  /\ location \in PublicRoutes \cup ProtectedRoutes


(* ======================= properties of the session ===================== *)
LoggedOut ==
  mem.user = Null /\ mem.token = Null /\ ~mem.isAuthenticated

WasLoggedIn(pre) ==
  pre.isAuthenticated /\ pre.user # Null /\ pre.token # Null

WasLoggedOut(pre) ==
  ~pre.isAuthenticated /\ pre.user = Null /\ pre.token = Null

\* the token decodes to an expiry strictly in the past
Expired(t) == jwtDecode(t).ok /\ jwtDecode(t).exp * 1000 < nowMs

StorageCleared == \A k \in Keys : localStorage[k] = Absent

\* the last event is a run of one of the two rehydration routines
\* (persist hook of useAuthStore.ts, checkAuthOnLoad of lib/auth.ts)
Rehydrated ==
  /\ last.ev \in {"rehydrated", "threw"}
  /\ IsU \/ last.op = "checkAuthOnLoad"

\* C1: a login, register or loginWithGoogle that was invoked while LoggedIn
\* and whose backend call failed leaves the session LoggedIn with the user
\* and token it had before the call, and isLoading false.
C1_FailedLoginKeepsSession ==
  (last.ev = "rejected" /\ last.op \in AuthOps /\ last.solo
     /\ WasLoggedIn(last.pre))
  => (Triple(mem) = last.pre /\ ~mem.isLoading)

\* C2: after logout(), from whatever state and however often it is called,
\* user and token are absent, isAuthenticated is false and every persisted
\* session key is cleared; a logout() right after a logout() changes nothing.
C2_LogoutIdempotent ==
  /\ [](last.ev = "logout" => (LoggedOut /\ StorageCleared))
  /\ [][(last.ev = "logout" /\ last'.ev = "logout")
          => (mem' = mem /\ localStorage' = localStorage)]_vars

C2_Witness ==
  last.ev = "logout" /\ InFlight > 0 /\ LoggedOut /\ StorageCleared

C4_ValidSnapshotRestored ==
  (Rehydrated /\ last.pre.token # Null /\ ~Expired(last.pre.token))
  => (/\ mem.isAuthenticated
      /\ mem.user = last.pre.user
      /\ mem.token = last.pre.token)

\* C5: isAuthenticated is true exactly when user and token are both present.
C5_AuthenticatedIffUserAndToken ==
  mem.isAuthenticated <=> (mem.user # Null /\ mem.token # Null)


\* C6: no session with isAuthenticated true holds a token whose expiry is in
\* the past, also when the clock passes the expiry while the application
\* keeps running.
C6_NoExpiredTokenAuthenticated ==
  ~(mem.isAuthenticated /\ mem.token # Null /\ Expired(mem.token))

\* C7: after a successful login, register or loginWithGoogle (mock branches
\* included) the {user, token, isAuthenticated} read back from the persisted
\* 'auth-store' snapshot equals the triple in memory.
C7_PersistedEqualsMemory ==
  (last.ev = "resolved" /\ last.op \in AuthOps)
  => /\ localStorage["auth-store"] # Absent
     /\ LET state == JSONparse(localStorage["auth-store"]).state
        IN  /\ state.user = mem.user
            /\ state.token = mem.token
            /\ state.isAuthenticated = mem.isAuthenticated

C7_Witness ==
  /\ last.ev = "resolved" /\ last.op = "register" /\ last.status = 200
  /\ mem.isAuthenticated /\ mem.token = "jwtB"
  /\ localStorage["auth-store"] # Absent

\* C8: when the backend answers a login, register or loginWithGoogle with
\* { token, user }, the session becomes LoggedIn with exactly that token and
\* user, isAuthenticated true and isLoading false.
C8_BackendSuccessBecomesSession ==
  (last.ev = "resolved" /\ last.op \in AuthOps /\ last.status = 200)
  => /\ mem.token = last.token
     /\ mem.user = last.user
     /\ mem.isAuthenticated
     /\ ~mem.isLoading

C8_Witness ==
  /\ last.ev = "resolved" /\ last.op = "login" /\ last.status = 200
  /\ last.solo /\ WasLoggedOut(last.pre)
  /\ mem.token = "jwtA" /\ mem.user = "user-1" /\ mem.isAuthenticated

\* C9: when login is invoked from LoggedOut and the backend answers 401 with
\* a message, the login promise rejects with that message, the session is
\* LoggedOut and isLoading is false.
C9_Login401Rejects ==
  (last.op = "login" /\ last.ev \in {"rejected", "hung"} /\ last.status = 401
     /\ last.solo /\ WasLoggedOut(last.pre))
  => /\ last.ev = "rejected"
     /\ last.message = "Invalid email or password"
     /\ LoggedOut
     /\ ~mem.isLoading

\* C10: for an action invoked when no other is in flight and not overlapped
\* by another store operation, isLoading is true from invocation to
\* settlement; whenever no action is unsettled, isLoading is false.
C10_IsLoadingWhileInFlight ==
  /\ solo.on => mem.isLoading
  /\ NoneUnsettled => ~mem.isLoading

C10_Witness ==
  /\ solo.on /\ calls["updateProfile"] = 1 /\ WasLoggedIn(solo.pre)
  /\ mem.isLoading

\* C11: every login, register, loginWithGoogle or updateProfile that the
\* backend answered (with success or with an error status, 401 included) has
\* settled, resolved or rejected, and once no invoked action is left
\* unsettled isLoading is false.
C11_AnsweredCallSettles ==
  (last.op \in Ops /\ last.ev \in {"resolved", "rejected", "hung"}
     /\ last.status \in {200, 401})
  => /\ last.ev # "hung"
     /\ InFlight = 0 => ~mem.isLoading

\* C12: a request made while LoggedIn that is answered 401 leaves the
\* session LoggedOut with the persisted snapshot cleared, whether or not the
\* caller handles the rejection, and the session is LoggedOut after the
\* reload that the redirect to the login route causes.
C12_UnauthorizedLogsOut ==
  /\ (last.ev \in {"rejected", "hung"} /\ last.status = 401 /\ last.solo
        /\ WasLoggedIn(last.pre))
     => (LoggedOut /\ localStorage["auth-store"] = Absent)
  /\ (last.ev = "rehydrated" /\ last.op = "reload" /\ last.status = 401)
     => LoggedOut

\* C13: a successful updateProfile invoked while LoggedIn leaves user equal
\* to the user the backend returned, and token and isAuthenticated as they
\* were before the call.
C13_UpdateProfileReplacesUser ==
  (last.ev = "resolved" /\ last.op = "updateProfile" /\ last.solo
     /\ WasLoggedIn(last.pre))
  => /\ mem.user = last.user
     /\ mem.token = last.pre.token
     /\ mem.isAuthenticated = last.pre.isAuthenticated

C13_Witness ==
  /\ last.ev = "resolved" /\ last.op = "updateProfile" /\ last.solo
  /\ WasLoggedIn(last.pre) /\ last.pre.user = "user-2"
  /\ mem.user = "user-1" /\ mem.token = "jwtB" /\ mem.isAuthenticated

\* C14: a failed updateProfile invoked while LoggedIn rejects to the caller
\* and leaves user, token and isAuthenticated as they were before the call,
\* in memory and in every persisted key, with isLoading false.
C14_FailedUpdateProfileKeepsSession ==
  (last.op = "updateProfile" /\ last.ev \in {"rejected", "hung"}
     /\ last.solo /\ WasLoggedIn(last.pre))
  => /\ last.ev = "rejected"
     /\ Triple(mem) = last.pre
     /\ localStorage = last.prels
     /\ ~mem.isLoading

\* the last event is a backend success of a login, register or
\* loginWithGoogle that follows directly on another such success, so both
\* calls were in flight at once
OverlappedSuccess ==
  /\ last.ev = "resolved" /\ last.op \in AuthOps /\ last.status = 200
  /\ last.after = "resolved" /\ last.over \in BackendTokens

\* C15: when two of login, register and loginWithGoogle are in flight at
\* once and both succeed, the session in memory and the persisted snapshot
\* hold the token and user of the call that resolved last.
C15_LastResolvedWins ==
  OverlappedSuccess
  => /\ mem.token = last.token /\ mem.user = last.user
     /\ mem.isAuthenticated
     /\ PersistedState(localStorage) = Triple(mem)

C15_Witness ==
  /\ OverlappedSuccess /\ last.over = "jwtB"
  /\ mem.token = "jwtA" /\ mem.user = "user-1"
  /\ PersistedState(localStorage).token = "jwtA"

\* C16: when logout() runs while a login, register or loginWithGoogle is in
\* flight, the later success of that call is discarded: the session stays
\* LoggedOut and nothing is written to persistent storage.
C16_LogoutDiscardsInFlightLogin ==
  (last.ev = "resolved" /\ last.op \in AuthOps /\ last.status = 200
     /\ last.after = "logout")
  => (LoggedOut /\ StorageCleared)

\* two storages hold the same session: the same persisted state and the
\* same standalone items
SameSession(ls1, ls2) ==
  /\ PersistedState(ls1) = PersistedState(ls2)
  /\ \A k \in Keys \ {"auth-store"} : ls1[k] = ls2[k]

\* C17: a failed login, register or loginWithGoogle writes nothing to
\* persistent storage: every persisted session key holds after the failed
\* call what it held before it.
C17_FailedLoginWritesNothing ==
  (last.ev \in {"rejected", "hung"} /\ last.op \in AuthOps /\ last.solo)
  => SameSession(localStorage, last.prels)

\* C18: whenever the session holds isAuthenticated true and a token t,
\* however it was established, a request sent through the api client
\* carries the header Authorization: Bearer t.
C18_RequestsCarryBearerToken ==
  (last.op = "request" /\ last.pre.isAuthenticated /\ last.pre.token # Null)
  => last.authorization = Bearer(last.pre.token)

\* C19: when the login page runs with a token parameter in the URL, the
\* session is LoggedIn with that token (token and user set, isAuthenticated
\* true) and the router is in the authenticated area; when it runs with an
\* error parameter, the session is as it was and the router is at the login
\* route with the parameter removed.
C19_OAuthCallbackEstablishesSession ==
  /\ last.op = "oauthCallback"
     => /\ mem.token = last.token /\ mem.user # Null /\ mem.isAuthenticated
        /\ location \in ProtectedRoutes
  /\ last.op = "oauthError"
     => (Triple(mem) = last.pre /\ location = "/login")

\* C20: no protected route is rendered while the session is LoggedOut, and
\* a navigation to a protected route made with no session ends at the login
\* route.
C20_ProtectedRouteNeedsSession ==
  /\ ~(location \in ProtectedRoutes /\ LoggedOut)
  /\ (last.ev = "navigated" /\ last.op \in ProtectedRoutes
        /\ WasLoggedOut(last.pre))
     => location = "/login"

C20_Witness ==
  /\ last.ev = "navigated" /\ last.op = "/settings" /\ WasLoggedOut(last.pre)
  /\ LoggedOut /\ location = "/login"

\* C23: the snapshot under 'auth-store' consists of exactly user, token and
\* isAuthenticated, and a reload, also one that finds an action in flight,
\* never yields isLoading true.
C23_IsLoadingNotPersisted ==
  /\ localStorage["auth-store"] # Absent
     => DOMAIN JSONparse(localStorage["auth-store"]).state
          = {"user", "token", "isAuthenticated"}
  /\ (last.ev = "rehydrated" /\ last.op = "reload") => ~mem.isLoading

C23_Witness ==
  /\ last.ev = "rehydrated" /\ last.op = "reload" /\ last.wasLoading
  /\ localStorage["auth-store"] # Absent /\ ~mem.isLoading

\* C24: a login, register or loginWithGoogle leaves the session
\* authenticated only when the identity backend answered that call with a
\* successful { token, user }.
C24_SessionNeedsBackendSuccess ==
  (last.ev = "resolved" /\ last.op \in AuthOps /\ mem.isAuthenticated)
  => last.status = 200

\* C26: rehydration from a snapshot whose token cannot be decoded does not
\* throw and ends LoggedOut with the persisted snapshot removed, in the
\* persist hook and in checkAuthOnLoad alike.
C26_UndecodableSnapshotLogsOut ==
  (Rehydrated /\ last.pre.token # Null /\ ~jwtDecode(last.pre.token).ok)
  => /\ last.ev # "threw"
     /\ LoggedOut
     /\ localStorage["auth-store"] = Absent

\* C27: isLoading is true as long as at least one action is in flight,
\* whatever settles or logs out in the meantime.
C27_IsLoadingWhileAnyInFlight ==
  InFlight > 0 => mem.isLoading

\* the token held under a standalone key, Null when the key is absent
ItemToken(k) ==
  IF localStorage[k] = Absent THEN Null ELSE localStorage[k].str

\* C28: whenever isAuthenticated is false and no action is in flight, user
\* and token are absent in memory and in the persisted keys.
C28_NotAuthenticatedHoldsNothing ==
  (~mem.isAuthenticated /\ NoneUnsettled)
  => /\ mem.user = Null /\ mem.token = Null
     /\ PersistedState(localStorage).user = Null
     /\ PersistedState(localStorage).token = Null
     /\ localStorage["user"] = Absent
     /\ ItemToken(AUTH_TOKEN_KEY) = Null /\ ItemToken("token") = Null

\* C29: in every state with no action in flight, the token under the key
\* the HTTP client reads, the token in the 'auth-store' snapshot and the
\* token in memory are the same, or all absent.
C29_TokenCopiesAgree ==
  NoneUnsettled
  => /\ ItemToken("token") = mem.token
     /\ PersistedState(localStorage).token = mem.token

\* C25: the route guard admits a LoggedIn session: a navigation to a
\* protected route made while LoggedIn, by the login page's redirect or
\* otherwise, ends at that route and not back at the login route.
C25_GuardAdmitsLoggedIn ==
  (last.ev \in {"navigated", "redirected"} /\ last.op \in ProtectedRoutes
     /\ WasLoggedIn(last.pre))
  => location = last.op

(* ------- properties of the subscribable store, checked under SubSpec --- *)
\* the user held under the 'user' key, Null when the key is absent
ItemUser ==
  IF localStorage["user"] = Absent THEN Null
  ELSE JSONparse(localStorage["user"])

\* C21: after a UI action outside the store (the layout's logout, the
\* profile form's save) every persisted session key still agrees with the
\* user and token the store holds in memory.
C21_OnlyStoreWritesSessionKeys ==
  last.ev = "ui"
  => (ItemToken("authToken") = mem.token /\ ItemUser = mem.user)

\* C22: the listener set holds exactly one listener for each component whose
\* mount has completed and none for any other: every subscribe is undone by
\* its disposer on teardown.
C22_OneListenerPerMounted ==
  \A c \in Components :
    listeners[c] = IF components[c].stage = "subscribed" THEN 1 ELSE 0

C22_Witness ==
  /\ last.ev = "unmounted" /\ last.op = "c1"
  /\ listeners["c1"] = 0 /\ listeners["c2"] = 1
  /\ components["c2"].stage = "subscribed"

\* C30: a component subscribed to the store displays the store's latest
\* { user, isAuthenticated }, also when the store changed between the
\* component's initial snapshot and its subscription.
C30_SubscribedShowsLatest ==
  \A c \in Components :
    components[c].stage = "subscribed"
    => components[c].state = getSnapshot(mem)

=============================================================================
